---- MODULE Spec2Model ----
(***************************************************************************)
(* Model of src/graph.py: the command-line front end "dep".                *)
(*                                                                         *)
(* Strings the program inspects character by character (package, repo,     *)
(* version) are sequences of one-character strings; repo_mode values and   *)
(* field names are TLA+ strings.  An argument that is not on the command   *)
(* line is the value Omitted (ModeOmitted for --repo-mode).                *)
(***************************************************************************)
EXTENDS Integers, Sequences, FiniteSets, TLC

\* ------------------------------------------------------------------ bounds
MaxPkgLen == 3
MaxVerLen == 1
MaxSegs == 1

\* ------------------------------------------------------- string utilities
Omitted == <<"<omitted>">>
ModeOmitted == "<omitted>"

SeqsUpTo(A, n) == UNION {[1..k -> A] : k \in 0..n}

RECURSIVE Repeat(_, _)
Repeat(s, k) == IF k = 0 THEN <<>> ELSE s \o Repeat(s, k - 1)

\* index of the first c in s, 0 when there is none (str.find, 1-based)
Find(s, c) ==
    IF \E i \in 1..Len(s) : s[i] = c
    THEN CHOOSE i \in 1..Len(s) : s[i] = c /\ \A j \in 1..(i - 1) : s[j] # c
    ELSE 0

UpperToLower ==
    [c \in {"H", "T", "P", "S"} |->
        CASE c = "H" -> "h" [] c = "T" -> "t" [] c = "P" -> "p" [] c = "S" -> "s"]

\* str.lower()
Lower(s) == [i \in 1..Len(s) |-> IF s[i] \in DOMAIN UpperToLower THEN UpperToLower[s[i]] ELSE s[i]]

Letters == {"h", "t", "p", "s", "f", "d", "g", "l", "a", "e", "H", "T", "P", "S"}
Digits == {"1"}
\* urllib.parse.scheme_chars
SchemeChars == Letters \cup Digits \cup {"+", "-", "."}

\* --------------------------------------------------------- program literals
HTTP == <<"h", "t", "t", "p">>
HTTPS == <<"h", "t", "t", "p", "s">>
LATEST == <<"l", "a", "t", "e", "s", "t">>
\* choices= and default= of --repo-mode
ModeChoices == <<"auto", "url", "file">>
ModeDefault == "auto"

\* declaration order of ConfigModel's fields: pydantic validates in this order
FieldOrder == <<"package", "repo", "version", "repo_mode", "ascii_tree">>
\* insertion order of the params dict built by main
ParamKeys == <<"package", "repo", "repo_mode", "version", "ascii_tree">>

\* -------------------------------------------------------------- urlparse
\* urlparse(v): the scheme is the text before the first ':' when it starts
\* with a letter and holds scheme characters only (lower-cased); the netloc
\* is what follows a leading '//' up to the next '/', '?' or '#'.
UrlParse(v) ==
    LET i == Find(v, ":")
        hasScheme == /\ i > 1
                     /\ v[1] \in Letters
                     /\ \A j \in 1..(i - 1) : v[j] \in SchemeChars
        scheme == IF hasScheme THEN Lower(SubSeq(v, 1, i - 1)) ELSE <<>>
        rest == IF hasScheme THEN SubSeq(v, i + 1, Len(v)) ELSE v
        hasNetloc == Len(rest) >= 2 /\ rest[1] = "/" /\ rest[2] = "/"
        after == IF hasNetloc THEN SubSeq(rest, 3, Len(rest)) ELSE <<>>
        delims == {k \in 1..Len(after) : after[k] \in {"/", "?", "#"}}
        stop == IF delims = {} THEN Len(after) + 1
                ELSE CHOOSE k \in delims : \A m \in delims : k <= m
        netloc == SubSeq(after, 1, stop - 1)
    IN [scheme |-> scheme, netloc |-> netloc]

\* variant: the network location is not looked at
looks_like_url_nonetloc(v) == UrlParse(v).scheme \in {HTTP, HTTPS}

\* parsed.scheme in ("http", "https") and parsed.netloc
looks_like_url(v) ==
    LET parsed == UrlParse(v)
    IN parsed.scheme \in {HTTP, HTTPS} /\ parsed.netloc # <<>>

\* ------------------------------------------------------------- filesystem
\* Path(v): repeated '/' collapse (exactly two leading ones are kept), a
\* trailing '/' is dropped, the empty string is '.'
RECURSIVE Collapse(_)
Collapse(s) ==
    IF Len(s) = 0 THEN <<>>
    ELSE IF s[1] = "/" /\ (Len(s) = 1 \/ s[2] = "/") THEN Collapse(Tail(s))
    ELSE <<s[1]>> \o Collapse(Tail(s))

LeadingSlashes(s) ==
    IF \E i \in 1..Len(s) : s[i] # "/"
    THEN (CHOOSE i \in 1..Len(s) : s[i] # "/" /\ \A j \in 1..(i - 1) : s[j] = "/") - 1
    ELSE Len(s)

PathNorm(v) ==
    LET n == LeadingSlashes(v)
        root == IF n = 0 THEN <<>> ELSE IF n = 2 THEN <<"/", "/">> ELSE <<"/">>
        body == Collapse(SubSeq(v, n + 1, Len(v)))
        p == root \o body
    IN IF p = <<>> THEN <<".">> ELSE p

\* the current directory and the root are always there
AlwaysThere == {<<".">>, <<"/">>}

PathExists(v, files) == PathNorm(v) \in (AlwaysThere \cup files)

\* the path and the directories above it (mkdir -p)
WithParents(p) ==
    {SubSeq(p, 1, k) : k \in {j \in 1..Len(p) : j = Len(p) \/ (p[j + 1] = "/" /\ p[j] # "/")}}

\* -------------------------------------------------------------- ConfigModel
Err(loc, type, allowed) == [loc |-> loc, type |-> type, allowed |-> allowed]

\* variant: the pattern ^[^:]+(:[^:]+)?$, the artifact part optional
PackagePatternOptionalArtifact(s) ==
    /\ Len(s) >= 1
    /\ \/ \A j \in 1..Len(s) : s[j] # ":"
       \/ \E i \in 1..Len(s) :
            /\ s[i] = ":"
            /\ i > 1 /\ \A j \in 1..(i - 1) : s[j] # ":"
            /\ i < Len(s) /\ \A j \in (i + 1)..Len(s) : s[j] # ":"

\* Field(pattern=r'^[^:]+:[^:]+$'): one or more non-colons, a colon, one or
\* more non-colons, and nothing else
PackagePattern(s) ==
    \E i \in 1..Len(s) :
        /\ s[i] = ":"
        /\ i > 1 /\ \A j \in 1..(i - 1) : s[j] # ":"
        /\ i < Len(s) /\ \A j \in (i + 1)..Len(s) : s[j] # ":"

ValidatePackage(v) ==
    IF v = Omitted THEN <<Err("package", "missing", <<>>)>>
    ELSE IF ~PackagePattern(v) THEN <<Err("package", "string_pattern_mismatch", <<>>)>>
    ELSE <<>>

\* info.data.get(key, default): data holds the fields validated so far
InfoDataGet(data, key, default) == IF key \in DOMAIN data THEN data[key] ELSE default

\* the field validator of repo; TRUE when it raises ValueError
RepoValidatorRaises(v, data, files) ==
    LET mode == InfoDataGet(data, "repo_mode", "auto")
    IN IF mode = "url" THEN ~looks_like_url(v)
       ELSE IF mode = "file" THEN ~PathExists(v, files)
       ELSE ~(looks_like_url(v) \/ PathExists(v, files))

repo_must_be_valid_for_mode(v, data, files) ==
    IF v = Omitted THEN <<Err("repo", "missing", <<>>)>>
    ELSE IF RepoValidatorRaises(v, data, files) THEN <<Err("repo", "value_error", <<>>)>>
    ELSE <<>>

\* variant: min_length left out
ValidateVersionAnyLength(v) == <<>>

\* Field("latest", min_length=1): the default is not validated

ValidateVersion(v) ==
    IF v = Omitted THEN <<>>
    ELSE IF Len(v) < 1 THEN <<Err("version", "string_too_short", <<>>)>>
    ELSE <<>>

\* Literal["auto", "url", "file"]: the message names the expected values
LiteralModes == <<"auto", "url", "file">>
\* allowed = {"auto", "url", "file"}; the message shows sorted(allowed)
AllowedModes == {"auto", "url", "file"}
SortedAllowed == <<"auto", "file", "url">>

\* variant: repo_mode a plain str with no check
ValidateRepoModeAcceptAll(v) == <<>>

\* the Literal check, then the validator repo_mode_allowed on what passed it;
\* the default is not validated

ValidateRepoMode(v) ==
    IF v = ModeOmitted THEN <<>>
    ELSE IF \A i \in 1..Len(LiteralModes) : LiteralModes[i] # v
         THEN <<Err("repo_mode", "literal_error", LiteralModes)>>
    ELSE IF v \notin AllowedModes
         THEN <<Err("repo_mode", "value_error", SortedAllowed)>>
    ELSE <<>>

ValidateField(f, kw, data, files) ==
    CASE f = "package" -> ValidatePackage(kw.package)
      [] f = "repo" -> repo_must_be_valid_for_mode(kw.repo, data, files)
      [] f = "version" -> ValidateVersion(kw.version)
      [] f = "repo_mode" -> ValidateRepoMode(kw.repo_mode)
      [] f = "ascii_tree" -> <<>>

\* the value a field takes: the keyword argument, or the field's default
FieldValue(f, kw) ==
    CASE f = "version" -> IF kw.version = Omitted THEN LATEST ELSE kw.version
      [] f = "repo_mode" -> IF kw.repo_mode = ModeOmitted THEN ModeDefault ELSE kw.repo_mode
      [] OTHER -> kw[f]

\* pydantic validates the fields in declaration order; a field that fails
\* adds its error and is left out of data, the others are added to data
RECURSIVE ValidateFrom(_, _, _, _, _)
ValidateFrom(i, kw, data, errs, files) ==
    IF i > Len(FieldOrder) THEN [errors |-> errs, data |-> data]
    ELSE LET f == FieldOrder[i]
             e == ValidateField(f, kw, data, files)
         IN IF e = <<>>
            THEN ValidateFrom(i + 1, kw, data @@ (f :> FieldValue(f, kw)), errs, files)
            ELSE ValidateFrom(i + 1, kw, data, errs \o e, files)

\* variant: validation stops at the first field that fails
RECURSIVE ValidateFailFast(_, _, _, _)
ValidateFailFast(i, kw, data, files) ==
    IF i > Len(FieldOrder) THEN [errors |-> <<>>, data |-> data]
    ELSE LET f == FieldOrder[i]
             e == ValidateField(f, kw, data, files)
         IN IF e = <<>>
            THEN ValidateFailFast(i + 1, kw, data @@ (f :> FieldValue(f, kw)), files)
            ELSE [errors |-> e, data |-> data]

ConfigModelFailFast(kw, files) == ValidateFailFast(1, kw, <<>>, files)

\* ConfigModel(**kw): [errors, data]; ValidationError is raised when errors
\* is not empty, otherwise data holds the model's fields
ConfigModel(kw, files) == ValidateFrom(1, kw, <<>>, <<>>, files)

\* ------------------------------------------------------------ input space
PkgChars == {"g", ":", " "}
VerChars == {"1", "/", " "}
Schemes == {<<>>, HTTP, <<"H", "T", "T", "P", "S">>, <<"f", "t", "p">>}
Separators == {<<>>, <<":">>, <<":", "/", "/">>}
Hosts == {<<>>, <<"h">>}

MkRepo(scheme, sep, host, segs) == scheme \o sep \o host \o Repeat(<<"/", "d">>, segs)

Packages == SeqsUpTo(PkgChars, MaxPkgLen) \cup {Omitted}
Versions == SeqsUpTo(VerChars, MaxVerLen) \cup {Omitted}
Repos ==
    {MkRepo(sc, sp, h, n) : sc \in Schemes, sp \in Separators, h \in Hosts, n \in 0..MaxSegs}
        \cup {Omitted}
Modes == {"auto", "url", "file", "bogus", ModeOmitted}

\* a well-formed and an ill-formed value of each field
SomePackages == {<<"g", ":", "g">>, <<>>}
SomeRepos == {MkRepo(HTTP, <<":", "/", "/">>, <<"h">>, 0), <<"h">>}
SomeVersions == {Omitted, <<"1">>, <<>>}

ArgvOver(ps, rs, vs) ==
    [package : ps, repo : rs, version : vs, repo_mode : Modes, ascii_tree : BOOLEAN]

\* every value of one field against some values of the others
ArgvSpace ==
    ArgvOver(Packages, SomeRepos, SomeVersions)
        \cup ArgvOver(SomePackages, Repos, SomeVersions)
        \cup ArgvOver(SomePackages, SomeRepos, Versions)

\* -------------------------------------------------------------- the program
VARIABLES argv, files, pc, params, stdout, stderr, errors, cfg, returned, status

vars == <<argv, files, pc, params, stdout, stderr, errors, cfg, returned, status>>

Running == -1

KvLine(k, v) == [kind |-> "kv", key |-> k, value |-> v]
SuccessLine == [kind |-> "text", key |-> "validated successfully", value |-> <<>>]
UsageError(e) == [kind |-> "usage", errs |-> <<e>>]
ValidationHeader == [kind |-> "header", errs |-> <<>>]
ValidationReport(es) == [kind |-> "validation", errs |-> es]

Init ==
    /\ argv \in ArgvSpace
    /\ files = {}
    /\ pc = "start"
    /\ params = <<>>
    /\ stdout = <<>>
    /\ stderr = <<>>
    /\ errors = <<>>
    /\ cfg = <<>>
    /\ returned = FALSE
    /\ status = Running

\* the environment creates the entry repo names before the program looks
CreatePath ==
    /\ pc = "start"
    /\ argv.repo # Omitted
    /\ ~PathExists(argv.repo, files)
    /\ files' = files \cup WithParents(PathNorm(argv.repo))
    /\ UNCHANGED <<argv, pc, params, stdout, stderr, errors, cfg, returned, status>>

\* parser.parse_args: a value outside choices is refused as the argument is
\* read, a missing required argument once all are read; both exit with 2
ParseArgsResult(a) ==
    IF a.repo_mode # ModeOmitted /\ \A i \in 1..Len(ModeChoices) : ModeChoices[i] # a.repo_mode
    THEN [ok |-> FALSE, error |-> Err("repo_mode", "invalid_choice", ModeChoices)]
    ELSE IF a.package = Omitted
    THEN [ok |-> FALSE, error |-> Err("package", "required", <<>>)]
    ELSE IF a.repo = Omitted
    THEN [ok |-> FALSE, error |-> Err("repo", "required", <<>>)]
    ELSE [ok |-> TRUE,
          args |-> [package |-> a.package,
                    repo |-> a.repo,
                    version |-> IF a.version = Omitted THEN LATEST ELSE a.version,
                    repo_mode |-> IF a.repo_mode = ModeOmitted THEN ModeDefault ELSE a.repo_mode,
                    ascii_tree |-> a.ascii_tree]]

ParseArgs ==
    /\ pc = "start"
    /\ LET r == ParseArgsResult(argv)
       IN IF r.ok
          THEN /\ params' = r.args
               /\ pc' = "parsed"
               /\ UNCHANGED <<stderr, status>>
          ELSE /\ stderr' = stderr \o <<UsageError(r.error)>>
               /\ status' = 2
               /\ pc' = "done"
               /\ UNCHANGED params
    /\ UNCHANGED <<argv, files, stdout, errors, cfg, returned>>

\* print_config(params)
PrintConfig ==
    /\ pc = "parsed"
    /\ stdout' = stdout \o [i \in 1..Len(ParamKeys) |-> KvLine(ParamKeys[i], params[ParamKeys[i]])]
    /\ pc' = "printed"
    /\ UNCHANGED <<argv, files, params, stderr, errors, cfg, returned, status>>

\* cfg = ConfigModel(**params)
Validate ==
    /\ pc = "printed"
    /\ LET r == ConfigModel(params, files)
       IN /\ errors' = r.errors
          /\ cfg' = IF r.errors = <<>> THEN r.data ELSE <<>>
    /\ pc' = "validated"
    /\ UNCHANGED <<argv, files, params, stdout, stderr, returned, status>>

\* variant: the handler reports and falls through to the success path
ExceptValidationErrorSwallowed ==
    /\ pc = "validated"
    /\ errors # <<>>
    /\ stderr' = stderr \o <<ValidationHeader, ValidationReport(errors)>>
    /\ stdout' = stdout \o <<SuccessLine>>
    /\ returned' = TRUE
    /\ status' = 0
    /\ pc' = "done"
    /\ UNCHANGED <<argv, files, params, errors, cfg>>

\* except ValidationError: report on stderr, raise SystemExit(2)
ExceptValidationError ==
    /\ pc = "validated"
    /\ errors # <<>>
    /\ stderr' = stderr \o <<ValidationHeader, ValidationReport(errors)>>
    /\ status' = 2
    /\ pc' = "done"
    /\ UNCHANGED <<argv, files, params, stdout, errors, cfg, returned>>

\* the success message, return cfg; the process ends with status 0
Success ==
    /\ pc = "validated"
    /\ errors = <<>>
    /\ stdout' = stdout \o <<SuccessLine>>
    /\ returned' = TRUE
    /\ status' = 0
    /\ pc' = "done"
    /\ UNCHANGED <<argv, files, params, stderr, errors, cfg>>

\* ConfigModel(**kwargs) built by a caller other than main: an argument left
\* out is a keyword left out
Construct ==
    /\ pc = "start"
    /\ LET r == ConfigModel(argv, files)
       IN /\ errors' = r.errors
          /\ cfg' = IF r.errors = <<>> THEN r.data ELSE <<>>
    /\ params' = argv
    /\ pc' = "constructed"
    /\ UNCHANGED <<argv, files, stdout, stderr, returned, status>>

Next ==
    \/ CreatePath
    \/ ParseArgs
    \/ PrintConfig
    \/ Validate
    \/ ExceptValidationError
    \/ Success
    \/ Construct

Spec == Init /\ [][Next]_vars

\* ------------------------------------------------------ the rules, restated
\* The rules as the specification words them, computed without UrlParse and
\* without the pattern matcher.
HasPrefixIgnoringCase(v, pre) ==
    Len(v) >= Len(pre) /\ Lower(SubSeq(v, 1, Len(pre))) = pre

\* http:// or https:// followed by at least one character of network location
IsHttpUrlWithNetloc(v) ==
    \E pre \in {HTTP \o <<":", "/", "/">>, HTTPS \o <<":", "/", "/">>} :
        /\ HasPrefixIgnoringCase(v, pre)
        /\ Len(v) > Len(pre)
        /\ v[Len(pre) + 1] \notin {"/", "?", "#"}

IsBlank(s) == \A i \in 1..Len(s) : s[i] = " "

\* group:artifact: exactly one colon, with text on both sides
IsCoordinate(s) ==
    /\ Cardinality({i \in 1..Len(s) : s[i] = ":"}) = 1
    /\ s[1] # ":"
    /\ s[Len(s)] # ":"

VersionChars == Letters \cup Digits \cup {".", "_", "+", "-", ":"}
MatchesVersionPattern(v) == Len(v) >= 1 /\ \A i \in 1..Len(v) : v[i] \in VersionChars

IsAllowedMode(m) == m \in {"auto", "url", "file"}

\* does the rule of field f fail for the keyword arguments kw (what the code
\* enforces: repo by the auto rule, version by length)
RuleFails(f, kw, fs) ==
    CASE f = "package" -> kw.package = Omitted \/ ~IsCoordinate(kw.package)
      [] f = "repo" -> \/ kw.repo = Omitted
                       \/ ~(IsHttpUrlWithNetloc(kw.repo) \/ PathExists(kw.repo, fs))
      [] f = "version" -> kw.version = <<>>
      [] f = "repo_mode" -> kw.repo_mode # ModeOmitted /\ ~IsAllowedMode(kw.repo_mode)

FailingRules(kw, fs) ==
    SelectSeq(<<"package", "repo", "version", "repo_mode">>, LAMBDA f : RuleFails(f, kw, fs))

Locs(es) == [i \in 1..Len(es) |-> es[i].loc]
HasErrorOn(f) == \E i \in 1..Len(errors) : errors[i].loc = f
Reported(f) == \E i \in 1..Len(stderr) : \E j \in 1..Len(stderr[i].errs) : stderr[i].errs[j].loc = f
ReportedListing(f, allowed) ==
    \E i \in 1..Len(stderr) : \E j \in 1..Len(stderr[i].errs) :
        /\ stderr[i].errs[j].loc = f
        /\ {stderr[i].errs[j].allowed[k] : k \in 1..Len(stderr[i].errs[j].allowed)} = allowed
SuccessPrinted == \E i \in 1..Len(stdout) : stdout[i] = SuccessLine
KvPrinted == \E i \in 1..Len(stdout) : stdout[i].kind = "kv"
TreeBlockPrinted == \E i \in 1..Len(stdout) : stdout[i].kind = "tree"

\* ConfigModel has run, from main or from another caller
Validated == pc \in {"validated", "constructed"}
\* main got past parse_args
Parsed == pc \in {"parsed", "printed", "validated"} \/ (pc = "done" /\ Len(stdout) > 0)

\* --------------------------------------------------------------- the claims

\* C1 (as stated): with repo_mode = "url", a repo that is not an http/https
\* URL with a network location is rejected with an error on repo, also when
\* it names an existing path.
C1_UrlModeRejectsNonUrl ==
    (pc = "validated" /\ params.repo_mode = "url" /\ params.repo # Omitted
        /\ ~IsHttpUrlWithNetloc(params.repo))
    => HasErrorOn("repo")

\* C2 (as stated): with repo_mode = "file", repo is accepted if and only if
\* its path exists when the configuration is validated.
C2_FileModeAcceptsIffExists ==
    (pc = "validated" /\ params.repo_mode = "file" /\ params.repo # Omitted)
    => (HasErrorOn("repo") <=> ~PathExists(params.repo, files))

\* C3: with repo_mode "auto" or not supplied, repo is accepted if and only if
\* it is an http/https URL with a network location or names an existing
\* filesystem entry.
C3_AutoAcceptsUrlOrPath ==
    (Validated /\ argv.repo_mode \in {"auto", ModeOmitted} /\ params.repo # Omitted)
    => (HasErrorOn("repo")
            <=> ~(IsHttpUrlWithNetloc(params.repo) \/ PathExists(params.repo, files)))

\* C3 witness: main validated a repo that is no URL but names an entry that
\* was created, with --repo-mode left out, and accepted it.
C3_Witness ==
    /\ pc = "validated"
    /\ argv.repo_mode = ModeOmitted
    /\ ~IsHttpUrlWithNetloc(params.repo)
    /\ PathNorm(params.repo) \in files
    /\ ~HasErrorOn("repo")

\* C4 (as stated): key=value lines are on standard output only once the
\* validation of the configuration has succeeded.
C4_KvOnlyAfterValidation ==
    KvPrinted => (pc \in {"validated", "done"} /\ errors = <<>>)

C7_BlankPackageAlwaysReported ==
    (pc = "done" /\ argv.package # Omitted /\ argv.repo # Omitted /\ IsBlank(argv.package))
    => (status = 2 /\ Reported("package"))

\* C7 (amended): a blank package gives exit code 2 in every run, and a
\* package error whenever argument parsing has passed (and whenever
\* ConfigModel is constructed by another caller), whatever the other fields.
C7_BlankPackageReportedOnceParsed ==
    /\ (pc = "done" /\ IsBlank(argv.package)) => status = 2
    /\ (pc = "done" /\ Parsed /\ IsBlank(argv.package)) => Reported("package")
    /\ (Validated /\ IsBlank(argv.package)) => HasErrorOn("package")

\* C7 witness: a whitespace-only package was reported next to a repo error.
C7_Witness ==
    /\ pc = "done"
    /\ Len(argv.package) > 0 /\ IsBlank(argv.package)
    /\ Reported("package") /\ Reported("repo")
    /\ status = 2

\* C8: a mode outside {auto, url, file} is rejected, never reaches the success
\* path, and the error lists the allowed set, at parse_args and at ConfigModel.
C8_UnknownModeListsAllowed ==
    (argv.repo_mode # ModeOmitted /\ ~IsAllowedMode(argv.repo_mode)) =>
        /\ ~SuccessPrinted /\ ~returned /\ status # 0
        /\ ~Parsed
        /\ pc = "done" =>
             (status = 2 /\ ReportedListing("repo_mode", {"auto", "url", "file"}))
        /\ pc = "constructed" =>
             /\ DOMAIN cfg = {}
             /\ \E i \in 1..Len(errors) :
                    /\ errors[i].loc = "repo_mode"
                    /\ {errors[i].allowed[k] : k \in 1..Len(errors[i].allowed)}
                            = {"auto", "url", "file"}

\* C8 witness: ConfigModel refused an unknown mode and nothing else.
C8_Witness ==
    /\ pc = "constructed"
    /\ argv.repo_mode = "bogus"
    /\ Locs(errors) = <<"repo_mode">>

\* C9 (as stated): a supplied version holding a character outside
\* alphanumerics and . _ + - : gives a version error.
C9_VersionPatternEnforced ==
    (Validated /\ argv.version # Omitted /\ ~MatchesVersionPattern(argv.version))
    => HasErrorOn("version")

\* C9 (amended): a supplied version is accepted if and only if it is not
\* empty; a version left out is "latest" and is echoed as version=latest.
C9_VersionNonEmptyOrLatest ==
    /\ (Validated /\ argv.version # Omitted) => (HasErrorOn("version") <=> argv.version = <<>>)
    /\ (Validated /\ argv.version = Omitted) => ~HasErrorOn("version")
    /\ (Parsed /\ argv.version = Omitted) => params.version = LATEST
    /\ (Parsed /\ pc # "parsed" /\ argv.version = Omitted) =>
            stdout[4] = KvLine("version", LATEST)
    /\ (pc = "constructed" /\ argv.version = Omitted /\ errors = <<>>) => cfg.version = LATEST

\* C9 witness: main validated the version "/" and raised no version error.
C9_Witness ==
    /\ pc = "validated"
    /\ argv.version = <<"/">>
    /\ ~HasErrorOn("version")

\* C10 (as stated): a successful run with --ascii-tree has the placeholder
\* tree block after the key=value lines; a run without it has no such block.
C10_TreeBlockWhenAsked ==
    /\ (pc = "done" /\ status = 0 /\ argv.ascii_tree) => TreeBlockPrinted
    /\ ~argv.ascii_tree => ~TreeBlockPrinted

====
